---- MODULE Spec2Model ----
(***************************************************************************)
(* Model of src/app.py, the single-page stock analyzer: credential         *)
(* resolution, the three cached fetchers, the parse layer, field coercion, *)
(* ROE normalization and the four-factor quant score of the Analyze block. *)
(*                                                                         *)
(* Python values are tagged records.  Floats are fixed-point hundredths    *)
(* (n = 1800 is 18.0) with the three non-finite values kept apart; strings *)
(* that get parsed (field values, date keys) are sequences of characters,  *)
(* message texts are kept whole.                                           *)
(***************************************************************************)
EXTENDS Integers, Sequences, FiniteSets, TLC

(***************************************************************************)
(* Python / JSON values                                                    *)
(***************************************************************************)
\* fixed-point resolution of the float model: hundredths
Scale == 10 * 10

None == [t |-> "none"]
Str(s) == [t |-> "str", s |-> s]
Text(m) == [t |-> "text", text |-> m]
PyInt(i) == [t |-> "int", n |-> i]
Fin(n) == [t |-> "float", k |-> "fin", n |-> n]
NaN == [t |-> "float", k |-> "nan", n |-> 0]
PInf == [t |-> "float", k |-> "pinf", n |-> 0]
NInf == [t |-> "float", k |-> "ninf", n |-> 0]
List(items) == [t |-> "list", items |-> items]
Dict(kv) == [t |-> "dict", kv |-> kv]
\* a raised exception, as the outcome of an evaluation
Exc(name) == [t |-> "exc", name |-> name]

IsExc(v) == v.t = "exc"
IsDict(v) == v.t = "dict"
IsFloat(v) == v.t = "float"
IsFiniteFloat(v) == v.t = "float" /\ v.k = "fin"
IsNumber(v) == v.t \in {"int", "float"}

\* dict.get(key, default)
Get(d, key, default) ==
    LET hits == {i \in 1..Len(d.kv) : d.kv[i][1] = key}
    IN IF hits = {} THEN default ELSE d.kv[CHOOSE i \in hits : TRUE][2]

HasKey(d, key) == \E i \in 1..Len(d.kv) : d.kv[i][1] = key

\* bool(v): Python truthiness
Truthy(v) ==
    CASE v.t = "none" -> FALSE
      [] v.t = "int" -> v.n # 0
      [] v.t = "float" -> ~(v.k = "fin" /\ v.n = 0)
      [] v.t = "str" -> Len(v.s) > 0
      [] v.t = "text" -> v.text # ""
      [] v.t = "list" -> Len(v.items) > 0
      [] v.t = "dict" -> Len(v.kv) > 0
      [] OTHER -> TRUE

(***************************************************************************)
(* Number arithmetic on int / float values (IEEE comparisons: every        *)
(* comparison with NaN is false)                                           *)
(***************************************************************************)
\* the value of a finite number, in hundredths
Hundredths(v) == IF v.t = "int" THEN v.n * Scale ELSE v.n

IsFiniteNumber(v) == v.t = "int" \/ (v.t = "float" /\ v.k = "fin")

\* a < b for a number a and a finite bound b given in hundredths
LtBound(a, b) ==
    IF IsFiniteNumber(a) THEN Hundredths(a) < b
    ELSE a.k = "ninf"

\* a > b
GtBound(a, b) ==
    IF IsFiniteNumber(a) THEN Hundredths(a) > b
    ELSE a.k = "pinf"

\* a <= b
LeBound(a, b) ==
    IF IsFiniteNumber(a) THEN Hundredths(a) <= b
    ELSE a.k = "ninf"

\* a * 100.  The float product is exact at this resolution except for an
\* error below the last place (0.14 * 100 is 14.000000000000002), which
\* crosses none of the limits the score compares with: 0.15 * 100 is 15.0.
Times100(a) ==
    CASE a.t = "int" -> PyInt(a.n * 100)
      [] a.t = "float" /\ a.k = "fin" -> Fin(a.n * 100)
      [] OTHER -> a

(***************************************************************************)
(* float(x): the conversion inside safe_float                              *)
(***************************************************************************)
DigitChars == {"0", "1", "2", "3", "4", "5", "6", "7", "8", "9"}

DigitVal(c) ==
    CASE c = "0" -> 0 [] c = "1" -> 1 [] c = "2" -> 2 [] c = "3" -> 3
      [] c = "4" -> 4 [] c = "5" -> 5 [] c = "6" -> 6 [] c = "7" -> 7
      [] c = "8" -> 8 [] c = "9" -> 9

AllDigits(s) == \A i \in 1..Len(s) : s[i] \in DigitChars

RECURSIVE DigitsVal(_)
DigitsVal(s) ==
    IF Len(s) = 0 THEN 0
    ELSE DigitsVal(SubSeq(s, 1, Len(s) - 1)) * 10 + DigitVal(s[Len(s)])

RECURSIVE LStrip(_)
LStrip(s) == IF Len(s) > 0 /\ s[1] = " " THEN LStrip(Tail(s)) ELSE s

RECURSIVE RStrip(_)
RStrip(s) ==
    IF Len(s) > 0 /\ s[Len(s)] = " " THEN RStrip(SubSeq(s, 1, Len(s) - 1)) ELSE s

Lower(c) ==
    CASE c = "N" -> "n" [] c = "A" -> "a" [] c = "I" -> "i" [] c = "F" -> "f"
      [] c = "T" -> "t" [] c = "Y" -> "y" [] OTHER -> c

LowerSeq(s) == [i \in 1..Len(s) |-> Lower(s[i])]

\* an unsigned decimal literal "ddd", "ddd.dd", ".dd", "ddd." in hundredths;
\* digits beyond the second fractional place are below the resolution
DecimalVal(s) ==
    LET dots == {i \in 1..Len(s) : s[i] = "."}
    IN IF dots = {}
         THEN IF Len(s) > 0 /\ AllDigits(s) THEN Fin(DigitsVal(s) * Scale)
              ELSE Exc("ValueError")
       ELSE IF Cardinality(dots) > 1 THEN Exc("ValueError")
       ELSE LET p == CHOOSE i \in dots : TRUE
                ip == SubSeq(s, 1, p - 1)
                fp == SubSeq(s, p + 1, Len(s))
                f2 == SubSeq(fp \o <<"0", "0">>, 1, 2)
            IN IF AllDigits(ip) /\ AllDigits(fp) /\ Len(ip) + Len(fp) > 0
                 THEN Fin(DigitsVal(ip) * Scale + DigitsVal(f2))
               ELSE Exc("ValueError")

Negate(v) ==
    CASE IsExc(v) -> v
      [] v.k = "fin" -> Fin(0 - v.n)
      [] v.k = "pinf" -> NInf
      [] v.k = "ninf" -> PInf
      [] OTHER -> v

UnsignedVal(s) ==
    LET w == LowerSeq(s)
    IN CASE w = <<"n", "a", "n">> -> NaN
         [] w = <<"i", "n", "f">> -> PInf
         [] w = <<"i", "n", "f", "i", "n", "i", "t", "y">> -> PInf
         [] OTHER -> DecimalVal(s)

\* float(s) for a str s: surrounding blanks stripped, optional sign
ParseFloat(s) ==
    LET b == RStrip(LStrip(s))
    IN IF Len(b) = 0 THEN Exc("ValueError")
       ELSE IF b[1] = "-" THEN Negate(UnsignedVal(Tail(b)))
       ELSE IF b[1] = "+" THEN UnsignedVal(Tail(b))
       ELSE UnsignedVal(b)

\* float(x)
Float(x) ==
    CASE x.t = "float" -> x
      [] x.t = "int" -> Fin(x.n * Scale)
      [] x.t = "str" -> ParseFloat(x.s)
      [] x.t = "text" -> Exc("ValueError")
      [] OTHER -> Exc("TypeError")

\* a variant that lets the conversion failure propagate
safe_float_propagates(x, default) == Float(x)

\* a variant that ignores the caller's default
safe_float_zero_default(x, default) ==
    IF IsExc(Float(x)) THEN Fin(0) ELSE Float(x)

safe_float(x, default) ==
    IF IsExc(Float(x)) THEN default ELSE Float(x)

(***************************************************************************)
(* Credentials: get_key and the two module-level keys                      *)
(***************************************************************************)
KeyNames == {"ALPHAVANTAGE_KEY", "FRED_KEY"}

\* the secrets store either fails on access or maps some names to values;
\* the process environment maps some names to values ("" is absent)
SecretStores ==
    {[raises |-> TRUE, vals |-> [n \in KeyNames |-> ""]]}
    \cup {[raises |-> FALSE, vals |-> v] : v \in [KeyNames -> {"", "key"}]}

Environments == {[n \in KeyNames |-> ""], [n \in KeyNames |-> "key"]}

get_key(store, env, name) ==
    IF store.raises THEN env[name] ELSE store.vals[name]

(***************************************************************************)
(* HTTP helper and the three fetchers                                      *)
(***************************************************************************)
\* what the transport does with a request: a timeout, a non-success status,
\* a body that is not JSON, or a JSON body
Timeout == [kind |-> "timeout", body |-> None]
HttpError == [kind |-> "status", body |-> None]
NotJson == [kind |-> "notjson", body |-> None]
Ok(body) == [kind |-> "ok", body |-> body]

get_json(resp) ==
    CASE resp.kind = "timeout" -> Exc("Timeout")
      [] resp.kind = "status" -> Exc("HTTPError")
      [] resp.kind = "notjson" -> Exc("JSONDecodeError")
      [] OTHER -> resp.body

ErrorDict(msg) == Dict(<< <<"_error", Text(msg)>> >>)

Request(fn, symbol, apikey) == [fn |-> fn, symbol |-> symbol, apikey |-> apikey]

\* the body of a fetcher: the value it returns (or the exception it lets
\* escape), the requests it issues, and how it ended
FetchBody(key, req, missing, failed, resp) ==
    IF key = ""
      THEN [ret |-> ErrorDict(missing), req |-> {}, how |-> "key_missing"]
    ELSE IF IsExc(get_json(resp))
      THEN [ret |-> ErrorDict(failed), req |-> {req}, how |-> resp.kind]
    ELSE [ret |-> get_json(resp), req |-> {req}, how |-> "ok"]

\* a fetcher without the key guard
fetch_overview_unguarded(key, tk, resp) ==
    IF IsExc(get_json(resp))
      THEN [ret |-> ErrorDict("Alpha Vantage OVERVIEW request failed"),
            req |-> {Request("OVERVIEW", tk, key)}, how |-> resp.kind]
    ELSE [ret |-> get_json(resp), req |-> {Request("OVERVIEW", tk, key)},
          how |-> "ok"]

fetch_overview(key, tk, resp) ==
    FetchBody(key, Request("OVERVIEW", tk, key), "ALPHAVANTAGE_KEY is missing",
              "Alpha Vantage OVERVIEW request failed", resp)

\* a fetcher without the try/except around the request
fetch_prices_uncaught(key, tk, resp) ==
    IF key = ""
      THEN [ret |-> ErrorDict("ALPHAVANTAGE_KEY is missing"), req |-> {},
            how |-> "key_missing"]
    ELSE [ret |-> get_json(resp),
          req |-> {Request("TIME_SERIES_DAILY_ADJUSTED", tk, key)},
          how |-> resp.kind]

fetch_prices(key, tk, resp) ==
    FetchBody(key, Request("TIME_SERIES_DAILY_ADJUSTED", tk, key),
              "ALPHAVANTAGE_KEY is missing",
              "Alpha Vantage PRICE request failed", resp)

fetch_us10y(key, resp) ==
    FetchBody(key, Request("DGS10", "", key), "FRED_KEY is missing",
              "FRED request failed", resp)

(***************************************************************************)
(* Parse layer: parse_price_df and parse_us10y                             *)
(***************************************************************************)
Date(n) == [t |-> "date", n |-> n]
Frame(rows) == [t |-> "frame", rows |-> rows]

RECURSIVE Split(_, _)
Split(s, sep) ==
    LET at == {i \in 1..Len(s) : s[i] = sep}
    IN IF at = {} THEN <<s>>
       ELSE LET p == CHOOSE i \in at : \A j \in at : i <= j
            IN <<SubSeq(s, 1, p - 1)>> \o Split(SubSeq(s, p + 1, Len(s)), sep)

\* pd.to_datetime of one date key: year-month-day with a one- or
\* two-digit month and day, so that "2024-1-2" and "2024-01-02" are the same
\* day; anything else is a parse error, which fails the whole conversion
to_datetime(key) ==
    LET p == Split(key, "-")
    IN IF /\ Len(p) = 3
          /\ \A i \in 1..3 : Len(p[i]) > 0 /\ AllDigits(p[i])
          /\ Len(p[1]) = 4 /\ Len(p[2]) <= 2 /\ Len(p[3]) <= 2
          /\ DigitsVal(p[2]) \in 1..12 /\ DigitsVal(p[3]) \in 1..31
         THEN Date(DigitsVal(p[1]) * 10000 + DigitsVal(p[2]) * 100 + DigitsVal(p[3]))
       ELSE Exc("DateParseError")

\* pd.to_numeric(errors="coerce") of one cell
to_numeric(cell) == IF IsExc(Float(cell)) THEN NaN ELSE Float(cell)

RECURSIVE InsertByDate(_, _)
InsertByDate(row, sorted) ==
    IF Len(sorted) = 0 THEN <<row>>
    ELSE IF row.date < Head(sorted).date THEN <<row>> \o sorted
    ELSE <<Head(sorted)>> \o InsertByDate(row, Tail(sorted))

RECURSIVE sort_index(_)
sort_index(rows) ==
    IF Len(rows) = 0 THEN <<>>
    ELSE InsertByDate(rows[Len(rows)], sort_index(SubSeq(rows, 1, Len(rows) - 1)))

\* DataFrame.from_dict of a truthy value that is no mapping: a list or a
\* string has no .values(), a number has no len()
FromDictError(ts) ==
    IF ts.t \in {"list", "str", "text"} THEN Exc("AttributeError") ELSE Exc("TypeError")

parse_price_df(price_raw) ==
    IF ~IsDict(price_raw) THEN Exc("AttributeError")
    ELSE LET ts == Get(price_raw, "Time Series (Daily)", Dict(<<>>))
         IN IF ~Truthy(ts) THEN Frame(<<>>)
            ELSE IF ~IsDict(ts) THEN FromDictError(ts)
            ELSE IF \E i \in 1..Len(ts.kv) : IsExc(to_datetime(ts.kv[i][1]))
              THEN Exc("DateParseError")
            ELSE Frame(sort_index(
                   [i \in 1..Len(ts.kv) |->
                      [date |-> to_datetime(ts.kv[i][1]).n,
                       close |-> to_numeric(Get(ts.kv[i][2], "4. close", None))]]))

\* obs[0] for a truthy obs: the first item of a list, the first character
\* of a string, KeyError for a JSON object (its keys are strings), TypeError
\* for a number
FirstOf(obs) ==
    CASE obs.t = "list" -> obs.items[1]
      [] obs.t = "str" -> Str(<<obs.s[1]>>)
      [] obs.t = "dict" -> Exc("KeyError")
      [] OTHER -> Exc("TypeError")

parse_us10y(us10y_raw) ==
    IF ~IsDict(us10y_raw) THEN Exc("AttributeError")
    ELSE LET obs == Get(us10y_raw, "observations", List(<<>>))
         IN IF ~Truthy(obs) THEN NaN
            ELSE IF IsExc(FirstOf(obs)) THEN FirstOf(obs)
            ELSE IF ~IsDict(FirstOf(obs)) THEN Exc("AttributeError")
            ELSE safe_float(Get(FirstOf(obs), "value", None), NaN)

(***************************************************************************)
(* Analyze block: API messages                                             *)
(***************************************************************************)
Banners(seq) == [t |-> "banners", seq |-> seq]

\* key in payload, for a payload that supports the test
Contains(p, key) ==
    CASE p.t = "dict" -> HasKey(p, key)
      [] p.t = "list" -> \E i \in 1..Len(p.items) :
                            p.items[i].t = "text" /\ p.items[i].text = key
      [] OTHER -> FALSE

\* if key in payload: banner(level, payload[key])
MessageFor(p, key, level, label) ==
    IF p.t \notin {"dict", "list"} THEN Exc("TypeError")
    ELSE IF ~Contains(p, key) THEN Banners(<<>>)
    ELSE IF ~IsDict(p) THEN Exc("TypeError")
    ELSE Banners(<<[level |-> level, label |-> label, msg |-> Get(p, key, None)]>>)

RECURSIVE Chain(_)
Chain(parts) ==
    IF Len(parts) = 0 THEN Banners(<<>>)
    ELSE IF IsExc(Head(parts)) THEN Head(parts)
    ELSE LET rest == Chain(Tail(parts))
         IN IF IsExc(rest) THEN rest ELSE Banners(Head(parts).seq \o rest.seq)

api_messages(ov, price_raw, us10y_raw) ==
    Chain(<<MessageFor(ov, "_error", "error", ""),
            MessageFor(ov, "Note", "warning", "Alpha Vantage (OVERVIEW) Note"),
            MessageFor(ov, "Error Message", "error", "Alpha Vantage (OVERVIEW) Error"),
            MessageFor(price_raw, "_error", "error", ""),
            MessageFor(price_raw, "Note", "warning", "Alpha Vantage (PRICE) Note"),
            MessageFor(price_raw, "Error Message", "error", "Alpha Vantage (PRICE) Error"),
            MessageFor(us10y_raw, "_error", "warning", "")>>)

(***************************************************************************)
(* Analyze block: fundamentals, ROE normalization, quant score             *)
(***************************************************************************)
PE_LIMIT == 20
ROE_LIMIT == 15
DEBT_LIMIT == 120
\* beta < 1.3, in hundredths
BETA_LIMIT_HUNDREDTHS == 130
FACTOR_POINTS == 25

\* a variant with the boundary on the other side
roe_percent_strict(roe_raw) ==
    IF LtBound(roe_raw, 1 * Scale) THEN Times100(roe_raw) ELSE roe_raw

roe_percent(roe_raw) ==
    IF LeBound(roe_raw, 1 * Scale) THEN Times100(roe_raw) ELSE roe_raw

\* a variant with the same default for every field
fundamentals_zero_beta(ov) ==
    IF ~IsDict(ov) THEN Exc("AttributeError")
    ELSE [t |-> "fundamentals",
          pe |-> safe_float(Get(ov, "PERatio", None), PyInt(0)),
          roe_raw |-> safe_float(Get(ov, "ReturnOnEquityTTM", None), PyInt(0)),
          debt |-> safe_float(Get(ov, "DebtToEquityRatio", None), PyInt(0)),
          beta |-> safe_float(Get(ov, "Beta", None), PyInt(0))]

fundamentals(ov) ==
    IF ~IsDict(ov) THEN Exc("AttributeError")
    ELSE [t |-> "fundamentals",
          pe |-> safe_float(Get(ov, "PERatio", None), PyInt(0)),
          roe_raw |-> safe_float(Get(ov, "ReturnOnEquityTTM", None), PyInt(0)),
          debt |-> safe_float(Get(ov, "DebtToEquityRatio", None), PyInt(0)),
          beta |-> safe_float(Get(ov, "Beta", None), PyInt(1))]

\* a variant without the truthiness tests
quant_score_no_zero_check(pe, roe, debt, beta) ==
    (IF LtBound(pe, PE_LIMIT * Scale) THEN FACTOR_POINTS ELSE 0)
    + (IF GtBound(roe, ROE_LIMIT * Scale) THEN FACTOR_POINTS ELSE 0)
    + (IF LtBound(debt, DEBT_LIMIT * Scale) THEN FACTOR_POINTS ELSE 0)
    + (IF LtBound(beta, BETA_LIMIT_HUNDREDTHS) THEN FACTOR_POINTS ELSE 0)

\* a variant that weighs the P/E factor by its limit
quant_score_weighted(pe, roe, debt, beta) ==
    (IF Truthy(pe) /\ LtBound(pe, PE_LIMIT * Scale) THEN PE_LIMIT ELSE 0)
    + (IF Truthy(roe) /\ GtBound(roe, ROE_LIMIT * Scale) THEN FACTOR_POINTS ELSE 0)
    + (IF Truthy(debt) /\ LtBound(debt, DEBT_LIMIT * Scale) THEN FACTOR_POINTS ELSE 0)
    + (IF Truthy(beta) /\ LtBound(beta, BETA_LIMIT_HUNDREDTHS) THEN FACTOR_POINTS ELSE 0)

quant_score(pe, roe, debt, beta) ==
    (IF Truthy(pe) /\ LtBound(pe, PE_LIMIT * Scale) THEN FACTOR_POINTS ELSE 0)
    + (IF Truthy(roe) /\ GtBound(roe, ROE_LIMIT * Scale) THEN FACTOR_POINTS ELSE 0)
    + (IF Truthy(debt) /\ LtBound(debt, DEBT_LIMIT * Scale) THEN FACTOR_POINTS ELSE 0)
    + (IF Truthy(beta) /\ LtBound(beta, BETA_LIMIT_HUNDREDTHS) THEN FACTOR_POINTS ELSE 0)

(***************************************************************************)
(* Sample payloads                                                         *)
(***************************************************************************)
Absent == [t |-> "absent"]
Unset == [t |-> "unset"]
NoEntry == [t |-> "noentry"]

\* a JSON object from (key, value) pairs, leaving out the absent fields
RECURSIVE Present(_)
Present(kv) ==
    IF Len(kv) = 0 THEN <<>>
    ELSE IF Head(kv)[2] = Absent THEN Present(Tail(kv))
    ELSE <<Head(kv)>> \o Present(Tail(kv))

Overview(p, r, d, b) ==
    Dict(Present(<< <<"PERatio", p>>, <<"ReturnOnEquityTTM", r>>,
                    <<"DebtToEquityRatio", d>>, <<"Beta", b>> >>))

S_None == Str(<<"N", "o", "n", "e">>)
S_nan == Str(<<"n", "a", "n">>)
S_inf == Str(<<"i", "n", "f">>)
S_ninf == Str(<<"-", "i", "n", "f">>)
S_dot == Str(<<".">>)
S_0 == Str(<<"0">>)
S_1 == Str(<<"1">>)
S_5 == Str(<<"5">>)
S_10 == Str(<<"1", "0">>)
S_15 == Str(<<"1", "5">>)
S_18 == Str(<<"1", "8">>)
S_20 == Str(<<"2", "0">>)
S_30 == Str(<<"3", "0">>)
S_50 == Str(<<"5", "0">>)
S_120 == Str(<<"1", "2", "0">>)
S_200 == Str(<<"2", "0", "0">>)
S_0_15 == Str(<<"0", ".", "1", "5">>)
S_0_18 == Str(<<"0", ".", "1", "8">>)
S_1_01 == Str(<<"1", ".", "0", "1">>)
S_neg_0_5 == Str(<<"-", "0", ".", "5">>)
S_0_8 == Str(<<"0", ".", "8">>)
S_0_9 == Str(<<"0", ".", "9">>)
S_1_3 == Str(<<"1", ".", "3">>)
S_2_0 == Str(<<"2", ".", "0">>)
S_4_25 == Str(<<" ", "4", ".", "2", "5">>)
S_187_5 == Str(<<"1", "8", "7", ".", "5">>)
S_abc == Str(<<"a", "b", "c">>)

PeValues == {Absent, S_None, S_0, S_10, S_20, S_30, S_nan, PyInt(10)}
RoeValues == {Absent, S_None, S_0_15, S_0_18, S_1, S_1_01, S_15, S_18, S_20, S_5,
              S_neg_0_5, S_inf}
DebtValues == {Absent, S_None, S_0, S_50, S_120, S_200}
BetaValues == {Absent, S_None, S_0, S_0_8, S_0_9, S_1_3, S_2_0, S_ninf}

Note(m) == Dict(<< <<"Note", Text(m)>> >>)
ErrorMessage(m) == Dict(<< <<"Error Message", Text(m)>> >>)

\* bodies the OVERVIEW endpoint may answer with
OverviewBodies ==
    { Dict(<<>>), Note("rate limit"), ErrorMessage("Invalid API call"),
      Overview(S_0, S_20, S_50, S_0_8), Overview(S_10, S_20, S_50, S_0_9),
      Overview(S_30, S_5, S_200, S_2_0), Overview(S_None, S_None, S_None, S_None),
      Overview(S_10, S_0_18, S_50, Absent),
      List(<<>>), PyInt(5), None }

D_0102 == <<"2", "0", "2", "4", "-", "0", "1", "-", "0", "2">>
D_0103 == <<"2", "0", "2", "4", "-", "0", "1", "-", "0", "3">>
D_0104 == <<"2", "0", "2", "4", "-", "0", "1", "-", "0", "4">>
D_1_2 == <<"2", "0", "2", "4", "-", "1", "-", "2">>
D_bad == <<"n", "/", "a">>

Row(close) == Dict(Present(<< <<"1. open", S_10>>, <<"4. close", close>> >>))

TimeSeries(ts) == Dict(<< <<"Time Series (Daily)", ts>> >>)

\* bodies the TIME_SERIES_DAILY_ADJUSTED endpoint may answer with
PriceBodies ==
    { Dict(<<>>), Note("rate limit"), TimeSeries(Dict(<<>>)),
      TimeSeries(Dict(<< <<D_0103, Row(S_187_5)>>, <<D_0102, Row(S_abc)>> >>)),
      TimeSeries(Dict(<< <<D_0102, Row(S_10)>>, <<D_1_2, Row(S_20)>> >>)),
      TimeSeries(Dict(<< <<D_bad, Row(S_10)>> >>)),
      TimeSeries(List(<<S_abc>>)),
      List(<<>>) }

Observations(obs) == Dict(<< <<"observations", obs>> >>)
Observation(v) == Dict(Present(<< <<"date", Str(D_0102)>>, <<"value", v>> >>))

\* bodies the FRED observations endpoint may answer with
Us10yBodies ==
    { Dict(<<>>), Observations(List(<<>>)),
      Observations(List(<<Observation(S_4_25)>>)),
      Observations(List(<<Observation(S_dot)>>)),
      Observations(List(<<Observation(Absent)>>)),
      Observations(List(<<S_abc>>)),
      Observations(Dict(<< <<"count", PyInt(1)>> >>)),
      List(<<>>) }

Responses(bodies) == {Timeout, HttpError, NotJson} \cup {Ok(b) : b \in bodies}

Tickers == {"AAPL"}
Fetchers == {"overview", "prices", "us10y"}

(***************************************************************************)
(* State                                                                   *)
(***************************************************************************)
VARIABLES
    AV_KEY, FRED_KEY,       \* module-level keys
    ticker,                 \* the ticker of the current Analyze run
    pc,                     \* position of the script run
    ovCache, prCache,       \* st.cache_data of fetch_overview / fetch_prices, by ticker
    usCache,                \* st.cache_data of fetch_us10y
    sent,                   \* requests issued so far
    how,                    \* how each fetch of the current run ended
    ov, price_raw, us10y_raw,
    banners,                \* st.error / st.warning messages of the run
    price_df, us10y,
    pe, roe_raw, roe, debt, beta,
    score,
    shown,                  \* what the output step displays
    error,                  \* the exception that ended the run, and where
    sf_x, sf_d, sf_out      \* one call of safe_float: argument, default, result

vars == <<AV_KEY, FRED_KEY, ticker, pc, ovCache, prCache, usCache, sent, how,
          ov, price_raw, us10y_raw, banners, price_df, us10y,
          pe, roe_raw, roe, debt, beta, score, shown, error, sf_x, sf_d, sf_out>>

keys == <<AV_KEY, FRED_KEY>>
caches == <<ovCache, prCache, usCache>>
fetched == <<ov, price_raw, us10y_raw>>
parsed == <<price_df, us10y>>
fund == <<pe, roe_raw, roe, debt, beta>>
call == <<sf_x, sf_d, sf_out>>

NoError == [at |-> "", exc |-> None]

\* the locals of a script run before the run assigns them
LocalsUnset ==
    /\ how = [f \in Fetchers |-> "none"]
    /\ ov = Unset /\ price_raw = Unset /\ us10y_raw = Unset
    /\ banners = <<>>
    /\ price_df = Unset /\ us10y = Unset
    /\ pe = Unset /\ roe_raw = Unset /\ roe = Unset /\ debt = Unset /\ beta = Unset
    /\ score = 0
    /\ shown = Unset
    /\ error = NoError

\* the same, as the assignments a new run starts with
LocalsReset ==
    /\ how' = [f \in Fetchers |-> "none"]
    /\ ov' = Unset /\ price_raw' = Unset /\ us10y_raw' = Unset
    /\ banners' = <<>>
    /\ price_df' = Unset /\ us10y' = Unset
    /\ pe' = Unset /\ roe_raw' = Unset /\ roe' = Unset /\ debt' = Unset /\ beta' = Unset
    /\ score' = 0
    /\ shown' = Unset
    /\ error' = NoError

NoCall == sf_x = Unset /\ sf_d = Unset /\ sf_out = Unset

\* the keys are resolved once, when the module starts, from the secrets
\* store or, when that fails, from the environment
Init ==
    /\ \E store \in SecretStores, env \in Environments :
          /\ AV_KEY = get_key(store, env, "ALPHAVANTAGE_KEY")
          /\ FRED_KEY = get_key(store, env, "FRED_KEY")
    /\ ticker = "AAPL"
    /\ pc = "idle"
    /\ ovCache = [tk \in Tickers |-> NoEntry]
    /\ prCache = [tk \in Tickers |-> NoEntry]
    /\ usCache = NoEntry
    /\ sent = {}
    /\ LocalsUnset
    /\ NoCall

(***************************************************************************)
(* Analyze run                                                             *)
(***************************************************************************)
\* the Analyze button is pressed: the script runs again from the top
Click ==
    /\ pc \in {"idle", "done", "raised"}
    /\ \E tk \in Tickers : ticker' = tk
    /\ pc' = "fetch_overview"
    /\ LocalsReset
    /\ UNCHANGED <<keys, caches, sent, call>>

\* an uncaught exception ends the script run
Raise(at, exc) == pc' = "raised" /\ error' = [at |-> at, exc |-> exc]

\* a cached call (ttl=3600): an entry that has not expired is returned as it
\* is; otherwise the body runs and its return value is stored
FetchOverview ==
    /\ pc = "fetch_overview"
    /\ \E resp \in Responses(OverviewBodies), expired \in BOOLEAN :
          LET hit == ovCache[ticker] # NoEntry /\ ~expired
              r == fetch_overview(AV_KEY, ticker, resp)
          IN IF hit
               THEN /\ ov' = ovCache[ticker]
                    /\ how' = [how EXCEPT !["overview"] = "cached"]
                    /\ pc' = "fetch_prices"
                    /\ UNCHANGED <<ovCache, sent, error>>
             ELSE /\ sent' = sent \cup r.req
                  /\ how' = [how EXCEPT !["overview"] = r.how]
                  /\ IF IsExc(r.ret)
                       THEN Raise("fetch_overview", r.ret) /\ UNCHANGED <<ov, ovCache>>
                     ELSE /\ ov' = r.ret
                          /\ ovCache' = [ovCache EXCEPT ![ticker] = r.ret]
                          /\ pc' = "fetch_prices"
                          /\ UNCHANGED error
    /\ UNCHANGED <<keys, ticker, prCache, usCache, price_raw, us10y_raw, banners,
                   parsed, fund, score, shown, call>>

FetchPrices ==
    /\ pc = "fetch_prices"
    /\ \E resp \in Responses(PriceBodies), expired \in BOOLEAN :
          LET hit == prCache[ticker] # NoEntry /\ ~expired
              r == fetch_prices(AV_KEY, ticker, resp)
          IN IF hit
               THEN /\ price_raw' = prCache[ticker]
                    /\ how' = [how EXCEPT !["prices"] = "cached"]
                    /\ pc' = "fetch_us10y"
                    /\ UNCHANGED <<prCache, sent, error>>
             ELSE /\ sent' = sent \cup r.req
                  /\ how' = [how EXCEPT !["prices"] = r.how]
                  /\ IF IsExc(r.ret)
                       THEN Raise("fetch_prices", r.ret) /\ UNCHANGED <<price_raw, prCache>>
                     ELSE /\ price_raw' = r.ret
                          /\ prCache' = [prCache EXCEPT ![ticker] = r.ret]
                          /\ pc' = "fetch_us10y"
                          /\ UNCHANGED error
    /\ UNCHANGED <<keys, ticker, ovCache, usCache, ov, us10y_raw, banners,
                   parsed, fund, score, shown, call>>

FetchUs10y ==
    /\ pc = "fetch_us10y"
    /\ \E resp \in Responses(Us10yBodies), expired \in BOOLEAN :
          LET hit == usCache # NoEntry /\ ~expired
              r == fetch_us10y(FRED_KEY, resp)
          IN IF hit
               THEN /\ us10y_raw' = usCache
                    /\ how' = [how EXCEPT !["us10y"] = "cached"]
                    /\ pc' = "messages"
                    /\ UNCHANGED <<usCache, sent, error>>
             ELSE /\ sent' = sent \cup r.req
                  /\ how' = [how EXCEPT !["us10y"] = r.how]
                  /\ IF IsExc(r.ret)
                       THEN Raise("fetch_us10y", r.ret) /\ UNCHANGED <<us10y_raw, usCache>>
                     ELSE /\ us10y_raw' = r.ret
                          /\ usCache' = r.ret
                          /\ pc' = "messages"
                          /\ UNCHANGED error
    /\ UNCHANGED <<keys, ticker, ovCache, prCache, ov, price_raw, banners,
                   parsed, fund, score, shown, call>>

Messages ==
    /\ pc = "messages"
    /\ LET m == api_messages(ov, price_raw, us10y_raw)
       IN IF IsExc(m)
            THEN Raise("messages", m) /\ UNCHANGED banners
          ELSE banners' = m.seq /\ pc' = "parse_prices" /\ UNCHANGED error
    /\ UNCHANGED <<keys, ticker, caches, sent, how, fetched, parsed, fund, score,
                   shown, call>>

ParsePrices ==
    /\ pc = "parse_prices"
    /\ LET df == parse_price_df(price_raw)
       IN IF IsExc(df)
            THEN Raise("parse_prices", df) /\ UNCHANGED price_df
          ELSE price_df' = df /\ pc' = "parse_us10y" /\ UNCHANGED error
    /\ UNCHANGED <<keys, ticker, caches, sent, how, fetched, banners, us10y, fund,
                   score, shown, call>>

ParseUs10y ==
    /\ pc = "parse_us10y"
    /\ LET y == parse_us10y(us10y_raw)
       IN IF IsExc(y)
            THEN Raise("parse_us10y", y) /\ UNCHANGED us10y
          ELSE us10y' = y /\ pc' = "fundamentals" /\ UNCHANGED error
    /\ UNCHANGED <<keys, ticker, caches, sent, how, fetched, banners, price_df, fund,
                   score, shown, call>>

Fundamentals ==
    /\ pc = "fundamentals"
    /\ LET f == fundamentals(ov)
       IN IF IsExc(f)
            THEN Raise("fundamentals", f) /\ UNCHANGED fund
          ELSE /\ pe' = f.pe
               /\ roe_raw' = f.roe_raw
               /\ roe' = roe_percent(f.roe_raw)
               /\ debt' = f.debt
               /\ beta' = f.beta
               /\ pc' = "score"
               /\ UNCHANGED error
    /\ UNCHANGED <<keys, ticker, caches, sent, how, fetched, banners, parsed, score,
                   shown, call>>

Score ==
    /\ pc = "score"
    /\ score' = quant_score(pe, roe, debt, beta)
    /\ pc' = "output"
    /\ UNCHANGED <<keys, ticker, caches, sent, how, fetched, banners, parsed, fund,
                   shown, error, call>>

\* the rows of the frame whose close is not NaN
NotNa(df) == {i \in 1..Len(df.rows) : df.rows[i].close # NaN}

Output ==
    /\ pc = "output"
    /\ shown' = [PER |-> pe, ROE |-> roe, DebtRatio |-> debt, Beta |-> beta,
                 US10Y |-> IF us10y = NaN THEN None ELSE us10y,
                 QuantScore |-> score,
                 chart |-> Len(price_df.rows) > 0 /\ NotNa(price_df) # {}]
    /\ pc' = "done"
    /\ UNCHANGED <<keys, ticker, caches, sent, how, fetched, banners, parsed, fund,
                   score, error, call>>

Next ==
    \/ Click
    \/ FetchOverview
    \/ FetchPrices
    \/ FetchUs10y
    \/ Messages
    \/ ParsePrices
    \/ ParseUs10y
    \/ Fundamentals
    \/ Score
    \/ Output

Spec == Init /\ [][Next]_vars

(***************************************************************************)
(* Scoring alone: the fundamentals extraction, normalization and score     *)
(* over every combination of the sample field values                       *)
(***************************************************************************)
ScoreInputs ==
    {Overview(p, r, d, b) :
        p \in PeValues, r \in RoeValues, d \in DebtValues, b \in BetaValues}
    \cup {ErrorDict("ALPHAVANTAGE_KEY is missing"),
          ErrorDict("Alpha Vantage OVERVIEW request failed"),
          Note("rate limit"), ErrorMessage("Invalid API call")}

InitScore ==
    /\ AV_KEY = "key" /\ FRED_KEY = "key"
    /\ ticker = "AAPL"
    /\ pc = "fundamentals"
    /\ ovCache = [tk \in Tickers |-> NoEntry]
    /\ prCache = [tk \in Tickers |-> NoEntry]
    /\ usCache = NoEntry
    /\ sent = {}
    /\ how = [f \in Fetchers |-> "cached"]
    /\ ov \in ScoreInputs
    /\ price_raw = Dict(<<>>) /\ us10y_raw = Dict(<<>>)
    /\ banners = <<>>
    /\ price_df = Frame(<<>>) /\ us10y = NaN
    /\ pe = Unset /\ roe_raw = Unset /\ roe = Unset /\ debt = Unset /\ beta = Unset
    /\ score = 0
    /\ shown = Unset
    /\ error = NoError
    /\ NoCall

NextScore == Fundamentals \/ Score \/ Output

SpecScore == InitScore /\ [][NextScore]_vars

(***************************************************************************)
(* The parse layer alone: time series with up to MaxRows date keys in      *)
(* every order, and the sample observation payloads                        *)
(***************************************************************************)
MaxRows == 3

DateKeys == {D_0102, D_0103, D_0104, D_1_2, D_bad}
Closes == {S_187_5, S_abc}

\* the sequences of at most n pairwise distinct date keys
KeyOrders(n) ==
    UNION {{ks \in [1..m -> DateKeys] : \A i, j \in 1..m : i # j => ks[i] # ks[j]} :
             m \in 0..n}

ParseInputs ==
    {TimeSeries(Dict([i \in 1..Len(ks) |->
                        <<ks[i], Row(IF i = 1 THEN c ELSE S_10)>>])) :
        ks \in KeyOrders(MaxRows), c \in Closes}
    \cup {Dict(<<>>), Note("rate limit"), ErrorDict("ALPHAVANTAGE_KEY is missing")}

InitParse ==
    /\ AV_KEY = "key" /\ FRED_KEY = "key"
    /\ ticker = "AAPL"
    /\ pc = "parse_prices"
    /\ ovCache = [tk \in Tickers |-> NoEntry]
    /\ prCache = [tk \in Tickers |-> NoEntry]
    /\ usCache = NoEntry
    /\ sent = {}
    /\ how = [f \in Fetchers |-> "cached"]
    /\ ov = Dict(<<>>)
    /\ price_raw \in ParseInputs
    /\ us10y_raw \in Us10yBodies \cup {ErrorDict("FRED_KEY is missing")}
    /\ banners = <<>>
    /\ price_df = Unset /\ us10y = Unset
    /\ pe = Unset /\ roe_raw = Unset /\ roe = Unset /\ debt = Unset /\ beta = Unset
    /\ score = 0
    /\ shown = Unset
    /\ error = NoError
    /\ NoCall

NextParse == ParsePrices \/ ParseUs10y

SpecParse == InitParse /\ [][NextParse]_vars

(***************************************************************************)
(* safe_float alone: one call over the sample values and defaults          *)
(***************************************************************************)
\* the defaults the program passes: 0 and 1 in the fundamentals
\* extraction, np.nan in parse_us10y
ProgramDefaults == {PyInt(0), PyInt(1), NaN}

Defaults == ProgramDefaults \cup {Fin(0), Fin(750), None}

\* values float() rejects
NonNumericSamples ==
    {None, S_None, S_abc, S_dot, Str(<<>>), Str(<<" ">>), Str(<<"-">>),
     Str(<<"1", ".", "2", ".", "3">>), Str(<<"1", "0", "%">>),
     Text("rate limit"), List(<<>>), List(<<S_10>>), Dict(<<>>),
     Observation(S_4_25)}

\* values float() turns into NaN or an infinity
NonFiniteSamples ==
    {S_nan, S_inf, S_ninf, Str(<<"N", "a", "N">>),
     Str(<<"I", "n", "f", "i", "n", "i", "t", "y">>), NaN, PInf, NInf}

\* values float() turns into a finite float
FiniteSamples ==
    {S_0, S_1, S_5, S_10, S_20, S_120, S_0_15, S_0_18, S_1_01, S_neg_0_5,
     S_1_3, S_4_25, S_187_5, Str(<<"+", "5">>), Str(<<"-", "0">>),
     Str(<<".", "5">>), Str(<<"7", ".">>), PyInt(0), PyInt(10), Fin(425)}

CoerceInputs == NonNumericSamples \cup NonFiniteSamples \cup FiniteSamples

InitCoerce ==
    /\ AV_KEY = "key" /\ FRED_KEY = "key"
    /\ ticker = "AAPL"
    /\ pc = "safe_float"
    /\ ovCache = [tk \in Tickers |-> NoEntry]
    /\ prCache = [tk \in Tickers |-> NoEntry]
    /\ usCache = NoEntry
    /\ sent = {}
    /\ LocalsUnset
    /\ sf_x \in CoerceInputs
    /\ sf_d \in Defaults
    /\ sf_out = Unset

CallSafeFloat ==
    /\ pc = "safe_float"
    /\ LET r == safe_float(sf_x, sf_d)
       IN IF IsExc(r)
            THEN Raise("safe_float", r) /\ UNCHANGED sf_out
          ELSE sf_out' = r /\ pc' = "done" /\ UNCHANGED error
    /\ UNCHANGED <<keys, ticker, caches, sent, how, fetched, banners, parsed, fund,
                   score, shown, sf_x, sf_d>>

NextCoerce == CallSafeFloat

SpecCoerce == InitCoerce /\ [][NextCoerce]_vars

(***************************************************************************)
(* Properties                                                              *)
(***************************************************************************)
Scored == pc \in {"output", "done"}
Extracted == pc \in {"score", "output", "done"}
FetchSteps == {"fetch_overview", "fetch_prices", "fetch_us10y"}
FetchesOver == pc \notin {"idle"} \cup FetchSteps

\* C1: the quant score of every Analyze run, whatever the fundamentals
\* payload, is one of 0, 25, 50, 75, 100.
C1_ScoreInRange == score \in {0, 25, 50, 75, 100}

\* a run over a payload with a non-numeric and a NaN field has been scored
C1_Witness ==
    /\ pc = "done"
    /\ Get(ov, "PERatio", None) = S_nan
    /\ Get(ov, "Beta", None) = S_None
    /\ score = 75

\* the factors of the score: value, direction and limit (in hundredths)
FactorNames == {"pe", "roe", "debt", "beta"}
FactorValue(f) ==
    CASE f = "pe" -> pe [] f = "roe" -> roe [] f = "debt" -> debt [] f = "beta" -> beta
MeetsThreshold(f) ==
    LET v == FactorValue(f)
        h == Hundredths(v)
    IN CASE ~IsFiniteNumber(v) -> (f = "roe" /\ v = PInf) \/ (f # "roe" /\ v = NInf)
         [] f = "pe" -> h < 2000
         [] f = "roe" -> h > 1500
         [] f = "debt" -> h < 12000
         [] f = "beta" -> h < 130
NonZero(v) == ~(IsFiniteNumber(v) /\ Hundredths(v) = 0)

\* C2: the score is 25 times the number of factors (P/E < 20, ROE% > 15,
\* debt < 120, beta < 1.3) whose value is nonzero and meets its threshold; a
\* value of exactly 0 never contributes; the three sample scores are 75, 100
\* and 0.
C2_ScoreFormula ==
    Scored =>
      /\ score = 25 * Cardinality({f \in FactorNames :
                                     NonZero(FactorValue(f)) /\ MeetsThreshold(f)})
      /\ (pe = Fin(0) /\ roe = Fin(2000) /\ debt = Fin(5000) /\ beta = Fin(80)
            => score = 75)
      /\ (pe = Fin(1000) /\ roe = Fin(2000) /\ debt = Fin(5000) /\ beta = Fin(90)
            => score = 100)
      /\ (pe = Fin(3000) /\ roe = Fin(500) /\ debt = Fin(20000) /\ beta = Fin(200)
            => score = 0)

\* the zero-suppression sample has been scored
C2_Witness ==
    /\ pc = "done"
    /\ pe = Fin(0) /\ roe = Fin(2000) /\ debt = Fin(5000) /\ beta = Fin(80)
    /\ shown.QuantScore = 75

\* C3: the ROE% used for scoring and display is the raw value times 100
\* when the raw value is <= 1 (1 itself, zero and negatives included) and the
\* raw value unchanged when it is > 1.
C3_RoeNormalization ==
    /\ Extracted =>
         /\ (IsFiniteNumber(roe_raw) /\ Hundredths(roe_raw) <= 100
               => /\ IsFiniteNumber(roe)
                  /\ roe.t = roe_raw.t
                  /\ Hundredths(roe) = 100 * Hundredths(roe_raw))
         /\ (roe_raw = NInf => roe = NInf)
         /\ (IsFiniteNumber(roe_raw) /\ Hundredths(roe_raw) > 100 => roe = roe_raw)
         /\ (roe_raw = PInf => roe = PInf)
    /\ pc = "done" => shown.ROE = roe

\* the boundary: a raw value of exactly 1 was normalized to 100
C3_Witness == pc = "done" /\ roe_raw = Fin(100) /\ roe = Fin(10000)

\* C4: safe_float never raises, and returns exactly the caller's default
\* whenever the argument cannot be converted (None, a non-numeric string,
\* the string "None", a container).
C4_SafeFloatTotal ==
    /\ pc # "raised"
    /\ (pc = "done" /\ sf_x \in NonNumericSamples) => sf_out = sf_d

\* the string "None" was coerced with a default no caller of the program uses
C4_Witness == pc = "done" /\ sf_x = S_None /\ sf_d = Fin(750) /\ sf_out = Fin(750)

\* C5 as stated: with the defaults the program passes, the result of
\* safe_float is always a finite float.
C5_AlwaysFiniteFloat ==
    (pc = "done" /\ sf_d \in ProgramDefaults) => IsFiniteFloat(sf_out)

\* C5, amended: with the defaults the program passes, safe_float returns the
\* caller's default itself (the int 0 or 1, or NaN) when the conversion fails,
\* NaN or an infinity when the argument spells one, and a finite float
\* otherwise.
C5_FiniteUnlessDefaultOrSpelled ==
    (pc = "done" /\ sf_d \in ProgramDefaults) =>
      /\ IsNumber(sf_out)
      /\ sf_x \in NonNumericSamples => sf_out = sf_d
      /\ sf_x \in NonFiniteSamples => sf_out \in {NaN, PInf, NInf}
      /\ sf_x \in FiniteSamples => IsFiniteFloat(sf_out)

\* the missing-value mark of the observations payload, coerced with the NaN
\* default of parse_us10y
C5_Witness == pc = "done" /\ sf_x = S_dot /\ sf_d = NaN /\ sf_out = NaN

FailureKinds == {"key_missing", "timeout", "status", "notjson"}

\* C7: no fetch raises; each turns its own failure into an "_error" result,
\* and all three fetches have been invoked whenever a run is past the fetch
\* step, whatever the outcomes of the earlier ones.
C7_FetchesIndependent ==
    /\ error.at \notin FetchSteps
    /\ FetchesOver =>
         /\ \A f \in Fetchers : how[f] # "none"
         /\ how["overview"] \in FailureKinds => IsDict(ov) /\ HasKey(ov, "_error")
         /\ how["prices"] \in FailureKinds
              => IsDict(price_raw) /\ HasKey(price_raw, "_error")
         /\ how["us10y"] \in FailureKinds
              => IsDict(us10y_raw) /\ HasKey(us10y_raw, "_error")

\* the first two fetches failed in transport and the third still succeeded
C7_Witness ==
    /\ pc = "done"
    /\ how = [overview |-> "timeout", prices |-> "status", us10y |-> "ok"]
    /\ Cardinality(sent) = 3

\* C8: no exception escapes the messages, parse and fundamentals steps:
\* every Analyze run reaches its output step.
C8_NoExceptionEscapes == pc # "raised"

\* C9: parse_price_df returns an empty series when the time-series key is
\* absent or empty, and otherwise a series whose dates are strictly
\* increasing, whatever the order of the keys.
C9_StrictlyIncreasingDates ==
    price_df # Unset =>
      /\ ~Truthy(Get(price_raw, "Time Series (Daily)", Dict(<<>>)))
           => price_df = Frame(<<>>)
      /\ \A i, j \in 1..Len(price_df.rows) :
           i < j => price_df.rows[i].date < price_df.rows[j].date

UsableFields(p) ==
    {f \in {"PERatio", "ReturnOnEquityTTM", "DebtToEquityRatio", "Beta"} :
       /\ HasKey(p, f)
       /\ Get(p, f, None) \notin NonNumericSamples}

\* C10: a missing or non-numeric Beta is replaced by 1 and earns the beta
\* points; when the fundamentals fetch yields no usable field (key missing,
\* transport failure, vendor error payload) the displayed score is exactly 25.
C10_DefaultBetaScores ==
    /\ (Extracted /\ "Beta" \notin UsableFields(ov)) => beta = PyInt(1)
    /\ (Scored /\ "Beta" \notin UsableFields(ov)) => score >= 25
    /\ (Scored /\ UsableFields(ov) = {})
         => /\ score = 25
            /\ pe = PyInt(0) /\ roe = PyInt(0) /\ debt = PyInt(0)
    /\ (pc = "done" /\ UsableFields(ov) = {}) => shown.QuantScore = 25

\* a run whose fundamentals request timed out has displayed its score
C10_Witness ==
    /\ pc = "done"
    /\ how["overview"] = "timeout"
    /\ ov = ErrorDict("Alpha Vantage OVERVIEW request failed")
    /\ shown.QuantScore = 25

====
